---- MODULE Spec2Model ----
(***************************************************************************)
(* SayCuteWeb: the streaming tool-call loop (app.py, _streaming_loop), the *)
(* two stream generators that drive it (chat.generate, chat_team.generate) *)
(* and the tool dispatcher with its two tools (tools.py).                  *)
(*                                                                         *)
(* Text is a sequence of one-symbol strings, so that len(), slicing,       *)
(* strip() and concatenation are computed as Python computes them.         *)
(* A Python value that may reach a tool is a record [t, s]: its type tag   *)
(* and, for a str, its characters (for an int its digits, for a list its   *)
(* elements).  A dict holds the two keys the tools read, code and content; *)
(* a key that is not in the dict holds Absent.                             *)
(*                                                                         *)
(* Not modelled: the non-streaming branch of chat (app.py 175-188), which  *)
(* runs the same loop and returns its events joined in one JSON response.  *)
(***************************************************************************)
EXTENDS Integers, Sequences, FiniteSets, TLC

VARIABLES
    mode,                 \* which route serves the request: "chat" or "team"
    outgoing,             \* the caller's conversation (request.messages)
    pc,                   \* position of generate()
    member,               \* index into TEAM_MEMBERS of the member being run
    member_answers,       \* member id -> accumulated content (or Unset)
    full_content,         \* content accumulated by generate() for the running persona
    lpc,                  \* position of the running _streaming_loop
    ctx,                  \* the loop's ConversationContext
    round,                \* rounds of the loop's for statement already completed
    collected_content,    \* this round's content fragments, joined
    collected_thinking,   \* this round's thinking fragments, joined
    collected_tool_calls, \* this round's captured tool calls
    tool_idx,             \* index of the tool call being executed
    sse,                  \* what the stream consumer has received
    model_calls,          \* the client.chat invocations made so far
    memory_file,          \* content of MEMORY_FILE
    chunks,               \* deltas the model has streamed during this request
    call,                 \* a direct call of a function of tools.py, if one is made
    ret                   \* what that call did, once it has been made

vars == <<mode, outgoing, pc, member, member_answers, full_content, lpc, ctx,
          round, collected_content, collected_thinking, collected_tool_calls,
          tool_idx, sse, model_calls, memory_file, chunks, call, ret>>

---------------------------------------------------------------------------
(* Configuration (config.py) and the bounds of the environment.            *)

\* config.MAX_TOOL_ROUNDS
MAX_TOOL_ROUNDS == 2

\* config.MAX_MEMORY_CHARS
MAX_MEMORY_CHARS == 2

\* config.PYTHON_TOOL_MAX_OUTPUT_CHARS
PYTHON_TOOL_MAX_OUTPUT_CHARS == 4

\* config.TEAM_MEMBERS, by member id, in roster order
TEAM_MEMBERS == <<"rex", "nova", "vera">>

\* config.TEAM_LEADER, by id
TEAM_LEADER == "sage"

\* The deltas the model streams during one request, over all its invocations.
MaxChunks == 2

\* The longest text handed to _truncate_text.
MaxTextLen == 26

---------------------------------------------------------------------------
(* Text.                                                                   *)

Whitespace == {" ", "\n"}

RECURSIVE lstrip(_)
lstrip(s) == IF s # <<>> /\ Head(s) \in Whitespace THEN lstrip(Tail(s)) ELSE s

RECURSIVE rstrip(_)
rstrip(s) ==
    IF s # <<>> /\ s[Len(s)] \in Whitespace
    THEN rstrip(SubSeq(s, 1, Len(s) - 1))
    ELSE s

\* str.strip()
strip(s) == rstrip(lstrip(s))

\* text[:n]
Prefix(s, n) == SubSeq(s, 1, IF n < Len(s) THEN n ELSE Len(s))

\* text[-n:] for n > 0
Suffix(s, n) == IF n < Len(s) THEN SubSeq(s, Len(s) - n + 1, Len(s)) ELSE s

---------------------------------------------------------------------------
(* Python values.                                                          *)

Absent == [t |-> "absent", s |-> <<>>]
PyNone == [t |-> "none", s |-> <<>>]
PyStr(s) == [t |-> "str", s |-> s]
PyInt(digits) == [t |-> "int", s |-> digits]
PyList(elems) == [t |-> "list", s |-> elems]

EmptyDict == [code |-> Absent, content |-> Absent]

\* A raw "arguments" value of a tool call: a dict, a str, None, or another shape.
RawDict(d) == [t |-> "dict", s |-> <<>>, d |-> d]
RawStr(s) == [t |-> "str", s |-> s, d |-> EmptyDict]
RawNone == [t |-> "none", s |-> <<>>, d |-> EmptyDict]
RawInt(digits) == [t |-> "int", s |-> digits, d |-> EmptyDict]
RawList(elems) == [t |-> "list", s |-> elems, d |-> EmptyDict]
RawBool(b) == [t |-> "bool", s |-> <<b>>, d |-> EmptyDict]

\* bool(v) is False
Falsy(v) ==
    \/ v.t \in {"absent", "none"}
    \/ v.t \in {"str", "list"} /\ v.s = <<>>
    \/ v.t = "int" /\ v.s = <<"0">>

\* bool(raw) is False, for a raw arguments value
RawFalsy(raw) ==
    \/ raw.t = "none"
    \/ raw.t \in {"str", "list"} /\ raw.s = <<>>
    \/ raw.t = "int" /\ raw.s = <<"0">>
    \/ raw.t = "bool" /\ raw.s = <<"False">>
    \/ raw.t = "dict" /\ raw.d = EmptyDict

\* str(v), for the value of args.get("code", "")
Str(v) ==
    CASE v.t = "absent" -> <<>>
      [] v.t = "str" -> v.s
      [] v.t = "none" -> <<"N", "o", "n", "e">>
      [] v.t = "int" -> v.s
      [] OTHER -> <<"[">> \o v.s \o <<"]">>

\* json.loads on the texts the model's bounded vocabulary can spell: an object
\* with at most one of the keys code, content and a string value, a number,
\* null, true, false, an empty list, a quoted string; anything else is not JSON.
json_loads(s) ==
    CASE s = <<"{", "}">> -> [ok |-> TRUE, v |-> RawDict(EmptyDict)]
      [] Len(s) = 5 /\ s[1] = "{" /\ s[2] = "code" /\ s[3] = ":" /\ s[5] = "}" ->
            [ok |-> TRUE, v |-> RawDict([EmptyDict EXCEPT !.code = PyStr(<<s[4]>>)])]
      [] Len(s) = 5 /\ s[1] = "{" /\ s[2] = "content" /\ s[3] = ":" /\ s[5] = "}" ->
            [ok |-> TRUE, v |-> RawDict([EmptyDict EXCEPT !.content = PyStr(<<s[4]>>)])]
      [] s = <<"5">> -> [ok |-> TRUE, v |-> RawInt(<<"5">>)]
      [] s = <<"null">> -> [ok |-> TRUE, v |-> RawNone]
      [] s = <<"true">> -> [ok |-> TRUE, v |-> RawBool("True")]
      [] s = <<"false">> -> [ok |-> TRUE, v |-> RawBool("False")]
      [] s = <<"[", "]">> -> [ok |-> TRUE, v |-> RawList(<<>>)]
      [] Len(s) = 3 /\ s[1] = "\"" /\ s[3] = "\"" -> [ok |-> TRUE, v |-> RawStr(<<s[2]>>)]
      [] OTHER -> [ok |-> FALSE, v |-> RawNone]

---------------------------------------------------------------------------
(* tools.py                                                                *)

\* A ToolResult: `fields` are the keys the dict holds.
Result(fields, ok, error, returncode, stdout, stderr, content) ==
    [fields |-> fields, ok |-> ok, error |-> error, returncode |-> returncode,
     stdout |-> stdout, stderr |-> stderr, content |-> content]

ErrorResult(error) == Result({"ok", "error"}, FALSE, error, 0, <<>>, <<>>, Absent)

\* What a call of a tool does: it returns `value`, or raises `exc`; `file` is
\* MEMORY_FILE afterwards and `spawned` says whether a subprocess was started.
Returned(value, file, spawned) ==
    [raised |-> FALSE, exc |-> "", value |-> value, file |-> file, spawned |-> spawned]

Raised(exc, file) ==
    [raised |-> TRUE, exc |-> exc, value |-> ErrorResult(<<>>), file |-> file,
     spawned |-> FALSE]

\* MEMORY_FILE: whether it exists and, if so, its text.
NoFile == [exists |-> FALSE, text |-> <<>>]

RECURSIVE json_escape(_)
\* The characters of a str as json.dumps(.., ensure_ascii=False) writes them
\* between the quotes.
json_escape(s) ==
    IF s = <<>> THEN <<>>
    ELSE (CASE Head(s) = "\"" -> <<"\\", "\"">>
            [] Head(s) = "\\" -> <<"\\", "\\">>
            [] Head(s) = "\n" -> <<"\\", "n">>
            [] OTHER -> <<Head(s)>>) \o json_escape(Tail(s))

RECURSIVE json_unescape(_)
\* The characters json.loads reads between the quotes of a string; a bare
\* quote, a bare control character or an unknown escape is not JSON.
json_unescape(s) ==
    IF s = <<>> THEN [ok |-> TRUE, s |-> <<>>]
    ELSE IF Head(s) \in {"\"", "\n"} THEN [ok |-> FALSE, s |-> <<>>]
    ELSE IF Head(s) = "\\"
    THEN IF Len(s) < 2 \/ s[2] \notin {"\"", "\\", "n"}
         THEN [ok |-> FALSE, s |-> <<>>]
         ELSE LET r == json_unescape(SubSeq(s, 3, Len(s)))
              IN  [ok |-> r.ok,
                   s |-> IF r.ok THEN <<(IF s[2] = "n" THEN "\n" ELSE s[2])>> \o r.s
                         ELSE <<>>]
    ELSE LET r == json_unescape(Tail(s))
         IN  [ok |-> r.ok, s |-> IF r.ok THEN <<Head(s)>> \o r.s ELSE <<>>]

\* json.dumps({"content": content}): the object's tokens, a str value between
\* quotes with its characters escaped, a list value between brackets.
dumps_content(content) ==
    <<"{", "content", ":">>
    \o (IF content.t = "str" THEN <<"\"">> \o json_escape(content.s) \o <<"\"">>
        ELSE <<"[">> \o content.s \o <<"]">>)
    \o <<"}">>

\* json.loads of the file's text: whether it is JSON, whether it is an object,
\* and the value of its "content" key.
loads_file(text) ==
    LET n == Len(text)
        v == SubSeq(text, 4, n - 1)
        fail == [ok |-> FALSE, dict |-> FALSE, content |-> Absent]
    IN  CASE text = <<"{", "}">> -> [ok |-> TRUE, dict |-> TRUE, content |-> Absent]
          [] text = <<"[", "]">> -> [ok |-> TRUE, dict |-> FALSE, content |-> Absent]
          [] n >= 5 /\ SubSeq(text, 1, 3) = <<"{", "content", ":">> /\ text[n] = "}" ->
                CASE v = <<"null">> -> [ok |-> TRUE, dict |-> TRUE, content |-> PyNone]
                  [] Len(v) >= 2 /\ v[1] = "\"" /\ v[Len(v)] = "\"" ->
                        LET r == json_unescape(SubSeq(v, 2, Len(v) - 1))
                        IN  IF r.ok
                            THEN [ok |-> TRUE, dict |-> TRUE, content |-> PyStr(r.s)]
                            ELSE fail
                  [] Len(v) >= 2 /\ v[1] = "[" /\ v[Len(v)] = "]" ->
                        [ok |-> TRUE, dict |-> TRUE,
                         content |-> PyList(SubSeq(v, 2, Len(v) - 1))]
                  [] OTHER -> fail
          [] OTHER -> fail

\* _save_memories: MEMORY_FILE.write_text(json.dumps({"content": content}))
save_memories(content) == [exists |-> TRUE, text |-> dumps_content(content)]

\* load_memories: str(data.get("content", "")) of the file's object, "" when the
\* file is missing, is not JSON or is not an object.
load_memories(file) ==
    IF file.exists
    THEN LET data == loads_file(file.text)
         IN  IF data.ok /\ data.dict THEN Str(data.content) ELSE <<>>
    ELSE <<>>

\* A lone surrogate, which a JSON escape can put in a str and UTF-8 cannot encode.
Surrogate == "\\ud800"

\* MEMORY_FILE after open(mode='w') has truncated it and the write has failed.
TruncatedFile == [exists |-> TRUE, text |-> <<>>]

\* write_text: open(mode='w') truncates the file, then the text is encoded and
\* written.  The open may fail (file as it was); the write may fail after the
\* truncation, and does so when the text holds a lone surrogate.
write_text(content, file) ==
    IF content.t = "str" /\ \E i \in 1..Len(content.s) : content.s[i] = Surrogate
    THEN { [raised |-> TRUE, exc |-> "UnicodeEncodeError", file |-> TruncatedFile],
           [raised |-> TRUE, exc |-> "OSError", file |-> file] }
    ELSE { [raised |-> FALSE, exc |-> "", file |-> save_memories(content)],
           [raised |-> TRUE, exc |-> "OSError", file |-> file],
           [raised |-> TRUE, exc |-> "OSError", file |-> TruncatedFile] }

\* run_memory_tool(content), with MEMORY_FILE holding `file`: the possible outcomes.
\* len() of an int raises TypeError; an exception of write_text is not caught.
run_memory_tool(content, file) ==
    IF Falsy(content)
    THEN {Returned(ErrorResult(<<"needs content">>), file, FALSE)}
    ELSE IF content.t \notin {"str", "list"}
    THEN {Raised("TypeError", file)}
    ELSE LET capped == IF Len(content.s) > MAX_MEMORY_CHARS
                       THEN [content EXCEPT !.s = Prefix(content.s, MAX_MEMORY_CHARS)]
                       ELSE content
         IN  { IF w.raised
               THEN Raised(w.exc, w.file)
               ELSE Returned(Result({"ok", "content"}, TRUE, <<>>, 0, <<>>, <<>>, capped),
                             w.file, FALSE) : w \in write_text(capped, file) }

\* "\n...<truncated>...\n", character by character
TruncationMarker ==
    <<"\n", ".", ".", ".", "<", "t", "r", "u", "n", "c", "a", "t", "e", "d", ">",
      ".", ".", ".", "\n">>

\* _truncate_text(text, max_chars)
truncate_text(text, max_chars) ==
    IF Len(text) <= max_chars
    THEN text
    ELSE LET half == max_chars \div 2
         IN  Prefix(text, half) \o TruncationMarker
             \o (IF half = 0 THEN text ELSE Suffix(text, half))

\* What subprocess.run can do with a non-empty program: exit with a return code
\* and captured output, exceed the timeout, or fail to start.
Completed == { [kind |-> "exit", returncode |-> 0, stdout |-> <<"o">>, stderr |-> <<>>],
               [kind |-> "exit", returncode |-> 1, stdout |-> <<>>, stderr |-> <<"e">>],
               [kind |-> "timeout", returncode |-> 0, stdout |-> <<>>, stderr |-> <<>>],
               [kind |-> "oserror", returncode |-> 0, stdout |-> <<>>, stderr |-> <<>>] }

\* run_python_tool(code): every exception of subprocess.run is caught.
run_python_tool(code, file) ==
    IF strip(code) = <<>>
    THEN {Returned(ErrorResult(<<"code is empty">>), file, FALSE)}
    ELSE { Returned(
             CASE c.kind = "exit" ->
                    Result({"ok", "returncode", "stdout", "stderr"},
                           c.returncode = 0, <<>>, c.returncode,
                           truncate_text(c.stdout, PYTHON_TOOL_MAX_OUTPUT_CHARS),
                           truncate_text(c.stderr, PYTHON_TOOL_MAX_OUTPUT_CHARS),
                           Absent)
               [] c.kind = "timeout" ->
                    ErrorResult(<<"python execution timed out after ", "N", "s">>)
               [] OTHER -> ErrorResult(<<"OSError">>),
             file, TRUE) : c \in Completed }

\* _normalize_tool_arguments with a str that does not decode to a dict dropped.
NormalizeDroppingBareString(raw_args) ==
    CASE raw_args.t = "dict" -> raw_args.d
      [] raw_args.t = "str" ->
            LET parsed == json_loads(raw_args.s)
            IN  IF parsed.ok /\ parsed.v.t = "dict" THEN parsed.v.d ELSE EmptyDict
      [] OTHER -> EmptyDict

\* _normalize_tool_arguments(raw_args)
normalize_tool_arguments(raw_args) ==
    CASE raw_args.t = "dict" -> raw_args.d
      [] raw_args.t = "str" ->
            LET parsed == json_loads(raw_args.s)
            IN  IF parsed.ok /\ parsed.v.t = "dict"
                THEN parsed.v.d
                ELSE [EmptyDict EXCEPT !.code = PyStr(raw_args.s)]
      [] OTHER -> EmptyDict

\* dispatch_tool(tool_name, raw_args), with MEMORY_FILE holding `file`
dispatch_tool(tool_name, raw_args, file) ==
    LET args == normalize_tool_arguments(raw_args)
    IN  CASE tool_name = "python_exec" -> run_python_tool(Str(args.code), file)
          [] tool_name = "memory_tool" -> run_memory_tool(args.content, file)
          [] OTHER -> {Returned(ErrorResult(<<"unknown tool: ", tool_name>>), file, FALSE)}

---------------------------------------------------------------------------
(* Messages, tool calls, deltas and events.                                *)

\* A message dict of the context: `keys` are the keys it holds besides role.
Message(role, keys, content, thinking, tool_calls, name, tool_call_id) ==
    [role |-> role, keys |-> keys, content |-> content, thinking |-> thinking,
     tool_calls |-> tool_calls, name |-> name, tool_call_id |-> tool_call_id]

\* {"role": m.role, "content": m.content} of a request message
RequestMessage(role, content) == Message(role, {"content"}, content, <<>>, <<>>, "", "")

\* A tool call as the model streams it; id "" stands for a call without id.
ToolCall(id, name, arguments) ==
    [id |-> id, function |-> [name |-> name, arguments |-> arguments]]

\* The tool calls of the model's vocabulary: a program for python_exec given as
\* a mapping, a blank program given as a bare string, a memory write longer than
\* the cap, a memory write whose content is a number, and an unregistered tool.
PyCall == ToolCall("call_1", "python_exec", RawDict([EmptyDict EXCEPT !.code = PyStr(<<"x">>)]))
PyBlankCall == ToolCall("", "python_exec", RawStr(<<" ">>))
MemoryCall ==
    ToolCall("", "memory_tool", RawDict([EmptyDict EXCEPT !.content = PyStr(<<"m", "n", "o">>)]))
MemoryIntCall ==
    ToolCall("call_2", "memory_tool", RawDict([EmptyDict EXCEPT !.content = PyInt(<<"5">>)]))
UnknownCall == ToolCall("call_3", "bogus", RawNone)

Delta(thinking, content, tool_calls) ==
    [thinking |-> thinking, content |-> content, tool_calls |-> tool_calls]

\* The deltas of the model's vocabulary; an empty text stands for a fragment
\* that is missing or empty, an empty sequence for no tool calls.
Deltas ==
    { Delta(<<"t">>, <<"a">>, <<>>),
      Delta(<<"t">>, <<>>, <<>>),
      Delta(<<>>, <<" ">>, <<>>),
      Delta(<<>>, <<"b">>, <<PyCall>>),
      Delta(<<>>, <<>>, <<UnknownCall, PyBlankCall>>),
      Delta(<<>>, <<>>, <<MemoryCall>>),
      Delta(<<>>, <<>>, <<MemoryIntCall>>) }

\* An event of _streaming_loop.
Event(type, text, tool, args, result) ==
    [type |-> type, text |-> text, tool |-> tool, args |-> args, result |-> result]

ThinkingEvent(text) == Event("thinking", text, "", RawNone, ErrorResult(<<>>))
ContentEvent(text) == Event("content", text, "", RawNone, ErrorResult(<<>>))
ToolRequestEvent(tool, args) == Event("tool_request", <<>>, tool, args, ErrorResult(<<>>))
ToolResultEvent(tool, result) == Event("tool_result", <<>>, tool, RawNone, result)

\* The text of the event that ends a loop whose rounds are used up.
LimitMessage == <<"tool round limit reached">>

\* A payload of the stream: `kind` is its top-level key (or the [DONE] sentinel).
Wire(kind, type, text, tool, arguments, result, id) ==
    [kind |-> kind, type |-> type, text |-> text, tool |-> tool,
     arguments |-> arguments, result |-> result, id |-> id]

\* _sse_from_event
sse_from_event(event) ==
    CASE event.type = "thinking" ->
            Wire("choices", "thinking", event.text, "", RawNone, ErrorResult(<<>>), "")
      [] event.type = "content" ->
            Wire("choices", "content", event.text, "", RawNone, ErrorResult(<<>>), "")
      [] event.type = "tool_request" ->
            Wire("tool_event", "request", <<>>, event.tool, event.args, ErrorResult(<<>>), "")
      [] event.type = "tool_result" ->
            Wire("tool_event", "result", <<>>, event.tool, RawNone, event.result, "")

TeamEvent(type, id) == Wire("team_event", type, <<>>, "", RawNone, ErrorResult(<<>>), id)
DoneSentinel == Wire("[DONE]", "", <<>>, "", RawNone, ErrorResult(<<>>), "")
ErrorEvent(exc) == Wire("error", "", <<exc>>, "", RawNone, ErrorResult(<<>>), "")

\* tools.TOOLS and app.PYTHON_ONLY_TOOLS, by function name
TOOLS == <<"python_exec", "memory_tool">>
PYTHON_ONLY_TOOLS == SelectSeq(TOOLS, LAMBDA t : t = "python_exec")

\* json.dumps(tool_result): the keys the result holds, in order, with their values.
json_dumps(result) ==
    <<"{">>
    \o <<"ok:", IF result.ok THEN "true" ELSE "false">>
    \o (IF "error" \in result.fields THEN <<"error:">> \o result.error ELSE <<>>)
    \o (IF "returncode" \in result.fields
        THEN <<"returncode:", IF result.returncode = 0 THEN "0" ELSE "1">> ELSE <<>>)
    \o (IF "stdout" \in result.fields THEN <<"stdout:">> \o result.stdout ELSE <<>>)
    \o (IF "stderr" \in result.fields THEN <<"stderr:">> \o result.stderr ELSE <<>>)
    \o (IF "content" \in result.fields THEN <<"content:">> \o result.content.s ELSE <<>>)
    \o <<"}">>

---------------------------------------------------------------------------
(* The request.                                                            *)

\* The conversations a caller may send: none, and one of two messages.
Conversations ==
    { <<>>,
      << RequestMessage("user", <<"p">>), RequestMessage("user", <<"q">>) >> }

NoAnswers == [keys |-> {}, val |-> [i \in 1..Len(TEAM_MEMBERS) |-> <<>>]]

\* A history in which the caller sends an assistant turn with empty content:
\* request.messages takes any role and any content.
EmptyTurnHistory ==
    << RequestMessage("user", <<"p">>), RequestMessage("assistant", <<>>),
       RequestMessage("user", <<"q">>) >>

Init ==
    /\ mode \in {"chat", "team"}
    /\ outgoing \in Conversations \cup (IF mode = "chat" THEN {EmptyTurnHistory} ELSE {})
    /\ pc = "start"
    /\ member = 1
    /\ member_answers = NoAnswers
    /\ full_content = <<>>
    /\ lpc = "idle"
    /\ ctx = <<>>
    /\ round = 0
    /\ collected_content = <<>>
    /\ collected_thinking = <<>>
    /\ collected_tool_calls = <<>>
    /\ tool_idx = 0
    /\ sse = <<>>
    /\ model_calls = <<>>
    /\ memory_file = NoFile
    /\ chunks = 0
    /\ call = <<>>
    /\ ret = <<>>

\* The persona whose loop is running.
Persona ==
    CASE pc = "chat_loop" -> "chat"
      [] pc = "member_loop" -> TEAM_MEMBERS[member]
      [] pc = "leader_loop" -> TEAM_LEADER
      [] OTHER -> ""

LoopRunning == pc \in {"chat_loop", "member_loop", "leader_loop"}

LoopVars == <<ctx, round, collected_content, collected_thinking,
              collected_tool_calls, tool_idx>>
RequestVars == <<mode, outgoing, member, member_answers>>

\* The list object a loop is called with: chat passes the list it built from
\* the request (`outgoing`), chat_team a list it has just built (member_ctx,
\* leader_ctx).
ConversationObject == IF mode = "chat" THEN "outgoing" ELSE "fresh"

\* ctx bound to the caller's list itself.
CtxObjectOfCaller(conversation_object) == conversation_object

\* ctx = list(conversation): ctx is bound to a new list object.
CtxObject(conversation_object) == "ctx"

\* The caller's list once the list ctx is bound to has become `new_ctx`: it
\* changes with ctx when the two are one object.
CallerListAfter(new_ctx) ==
    IF CtxObject(ConversationObject) = "outgoing" THEN new_ctx ELSE outgoing

\* _streaming_loop is entered with `conversation`: ctx = list(conversation).
EnterLoop(conversation) ==
    /\ ctx' = conversation
    /\ round' = 0
    /\ lpc' = IF MAX_TOOL_ROUNDS > 0 THEN "invoke" ELSE "limit"
    /\ collected_content' = <<>>
    /\ collected_thinking' = <<>>
    /\ collected_tool_calls' = <<>>
    /\ tool_idx' = 0

RECURSIVE ContentOf(_)
\* The texts of the content events among `events`, concatenated.
ContentOf(events) ==
    IF events = <<>> THEN <<>>
    ELSE (IF Head(events).type = "content" THEN Head(events).text ELSE <<>>)
         \o ContentOf(Tail(events))

\* Forward with full_content assigned where it is to be extended.
ForwardLastOnly(events) ==
    /\ sse' = sse \o [i \in 1..Len(events) |-> sse_from_event(events[i])]
    /\ full_content' = IF mode = "team" THEN ContentOf(events) ELSE full_content

\* The body of generate()'s `async for event in _streaming_loop(...)`: every
\* event goes to the stream; chat_team.generate also accumulates the content.
Forward(events) ==
    /\ sse' = sse \o [i \in 1..Len(events) |-> sse_from_event(events[i])]
    /\ full_content' = IF mode = "team" THEN full_content \o ContentOf(events)
                       ELSE full_content

\* generate()'s `except Exception as e`: the error payload ends the stream.
Abort(exc) ==
    /\ sse' = Append(sse, ErrorEvent(exc))
    /\ pc' = pc
    /\ lpc' = "raised"

---------------------------------------------------------------------------
(* _streaming_loop                                                         *)

\* A client.chat invocation: who it is made for, in which round, with which
\* messages and tool schemas, after how many payloads of the stream, and the
\* deltas read from its stream so far.
ModelCall(persona, r, messages, tools, at) ==
    [persona |-> persona, round |-> r, messages |-> messages, tools |-> tools,
     at |-> at, deltas |-> <<>>]

\* await client.chat(...) returns the stream of a new round.
InvokeModel ==
    /\ LoopRunning /\ lpc = "invoke"
    /\ model_calls' = Append(model_calls,
                             ModelCall(Persona, round + 1, ctx, PYTHON_ONLY_TOOLS, Len(sse)))
    /\ collected_content' = <<>>
    /\ collected_thinking' = <<>>
    /\ collected_tool_calls' = <<>>
    /\ lpc' = "stream"
    /\ UNCHANGED <<call, ret, RequestVars, pc, full_content, ctx, round, tool_idx, sse,
                   memory_file, chunks>>

\* await client.chat(...) raises: the backend is unreachable.
InvokeModelFails ==
    /\ LoopRunning /\ lpc = "invoke"
    /\ model_calls' = Append(model_calls,
                             ModelCall(Persona, round + 1, ctx, PYTHON_ONLY_TOOLS, Len(sse)))
    /\ Abort("ConnectionError")
    /\ UNCHANGED <<call, ret, RequestVars, full_content, LoopVars, memory_file, chunks>>

\* DeltaEvents without the test that the content fragment is non-empty.
DeltaEventsAnyContent(d) ==
    (IF d.thinking # <<>> THEN <<ThinkingEvent(d.thinking)>> ELSE <<>>)
    \o <<ContentEvent(d.content)>>

\* The events one delta yields: thinking, then content, each if it is a
\* non-empty string.
DeltaEvents(d) ==
    (IF d.thinking # <<>> THEN <<ThinkingEvent(d.thinking)>> ELSE <<>>)
    \o (IF d.content # <<>> THEN <<ContentEvent(d.content)>> ELSE <<>>)

\* Capture keeping the calls of every delta.
CaptureEvery(collected, tool_calls) == collected \o tool_calls

\* if tool_calls: collected_tool_calls = tool_calls
Capture(collected, tool_calls) == IF tool_calls # <<>> THEN tool_calls ELSE collected

\* One pass of `async for chunk in stream_response`.
StreamChunk ==
    /\ LoopRunning /\ lpc = "stream"
    /\ chunks < MaxChunks
    /\ \E d \in Deltas :
          /\ collected_thinking' = collected_thinking \o d.thinking
          /\ collected_content' = collected_content \o d.content
          /\ collected_tool_calls' = Capture(collected_tool_calls, d.tool_calls)
          /\ Forward(DeltaEvents(d))
          /\ model_calls' = [model_calls EXCEPT ![Len(model_calls)].deltas = Append(@, d)]
    /\ chunks' = chunks + 1
    /\ UNCHANGED <<call, ret, RequestVars, pc, lpc, ctx, round, tool_idx, memory_file>>

\* The stream raises while it is read.
StreamFails ==
    /\ LoopRunning /\ lpc = "stream"
    /\ Abort("ResponseError")
    /\ UNCHANGED <<call, ret, RequestVars, full_content, LoopVars, model_calls, memory_file, chunks>>

\* The assistant message built when the stream has ended.
AssistantMessage(content, thinking, tool_calls) ==
    Message("assistant",
            (IF strip(content) # <<>> THEN {"content"} ELSE {})
              \cup (IF strip(thinking) # <<>> THEN {"thinking"} ELSE {})
              \cup (IF tool_calls # <<>> THEN {"tool_calls"} ELSE {}),
            strip(content), strip(thinking), tool_calls, "", "")

\* if assistant_msg.keys() - {"role"}: ctx.append(assistant_msg)
AppendAssistant(c, msg) == IF msg.keys # {} THEN Append(c, msg) ELSE c

\* The stream ends: the assistant message is appended; without tool calls the
\* loop returns, otherwise it goes on to the first tool call.
StreamEnds ==
    /\ LoopRunning /\ lpc = "stream"
    /\ ctx' = AppendAssistant(ctx, AssistantMessage(collected_content,
                                  collected_thinking, collected_tool_calls))
    /\ IF collected_tool_calls = <<>>
       THEN lpc' = "returned" /\ tool_idx' = tool_idx
       ELSE lpc' = "request" /\ tool_idx' = 1
    /\ outgoing' = CallerListAfter(ctx')
    /\ UNCHANGED <<call, ret, mode, member, member_answers, pc, full_content, round,
                   collected_content,
                   collected_thinking, collected_tool_calls, sse, model_calls,
                   memory_file, chunks>>

\* args = function_data.get("arguments") or {}
ArgsOrEmpty(raw) == IF RawFalsy(raw) THEN RawDict(EmptyDict) ELSE raw

\* yield tool_request for the tool call at tool_idx
ToolRequest ==
    /\ LoopRunning /\ lpc = "request"
    /\ LET function_data == collected_tool_calls[tool_idx].function
       IN  Forward(<<ToolRequestEvent(function_data.name,
                                      ArgsOrEmpty(function_data.arguments))>>)
    /\ lpc' = "dispatch"
    /\ UNCHANGED <<call, ret, RequestVars, pc, LoopVars, model_calls, memory_file, chunks>>

\* ToolMessage without the tool_call_id.
ToolMessageWithoutId(tool_call, tool_result) ==
    Message("tool", {"name", "content"},
            json_dumps(tool_result), <<>>, <<>>, tool_call.function.name, "")

\* The tool message appended for a tool call and its result.
ToolMessage(tool_call, tool_result) ==
    Message("tool",
            {"name", "content"} \cup (IF tool_call.id # "" THEN {"tool_call_id"} ELSE {}),
            json_dumps(tool_result), <<>>, <<>>, tool_call.function.name, tool_call.id)

\* AfterTool with the round limit off by one.
AfterToolOneMoreRound(i, n, r) ==
    IF i < n THEN [lpc |-> "request", tool_idx |-> i + 1, round |-> r]
    ELSE IF r + 1 <= MAX_TOOL_ROUNDS
    THEN [lpc |-> "invoke", tool_idx |-> 0, round |-> r + 1]
    ELSE [lpc |-> "limit", tool_idx |-> 0, round |-> r + 1]

\* AfterTool leaving the for statement over the tool calls after the first one.
AfterToolFirstOnly(i, n, r) ==
    IF r + 1 < MAX_TOOL_ROUNDS
    THEN [lpc |-> "invoke", tool_idx |-> 0, round |-> r + 1]
    ELSE [lpc |-> "limit", tool_idx |-> 0, round |-> r + 1]

\* Where the loop goes after the tool call at index i of n: the next call, the
\* next round, or past the last round.
AfterTool(i, n, r) ==
    IF i < n THEN [lpc |-> "request", tool_idx |-> i + 1, round |-> r]
    ELSE IF r + 1 < MAX_TOOL_ROUNDS
    THEN [lpc |-> "invoke", tool_idx |-> 0, round |-> r + 1]
    ELSE [lpc |-> "limit", tool_idx |-> 0, round |-> r + 1]

\* dispatch_tool returns: yield tool_result, append the tool message.
ToolReturns ==
    /\ LoopRunning /\ lpc = "dispatch"
    /\ LET tool_call == collected_tool_calls[tool_idx]
           next == AfterTool(tool_idx, Len(collected_tool_calls), round)
       IN  \E o \in dispatch_tool(tool_call.function.name,
                                  tool_call.function.arguments, memory_file) :
              /\ ~o.raised
              /\ memory_file' = o.file
              /\ Forward(<<ToolResultEvent(tool_call.function.name, o.value)>>)
              /\ ctx' = Append(ctx, ToolMessage(tool_call, o.value))
              /\ lpc' = next.lpc
              /\ tool_idx' = next.tool_idx
              /\ round' = next.round
    /\ outgoing' = CallerListAfter(ctx')
    /\ UNCHANGED <<call, ret, mode, member, member_answers, pc, collected_content,
                   collected_thinking,
                   collected_tool_calls, model_calls, chunks>>

\* dispatch_tool raises: the exception leaves the loop and reaches generate().
ToolRaises ==
    /\ LoopRunning /\ lpc = "dispatch"
    /\ LET tool_call == collected_tool_calls[tool_idx]
       IN  \E o \in dispatch_tool(tool_call.function.name,
                                  tool_call.function.arguments, memory_file) :
              /\ o.raised
              /\ memory_file' = o.file
              /\ Abort(o.exc)
    /\ UNCHANGED <<call, ret, RequestVars, full_content, LoopVars, model_calls, chunks>>

\* The for statement is used up: the limit message, then the loop returns.
LimitReached ==
    /\ LoopRunning /\ lpc = "limit"
    /\ Forward(<<ContentEvent(LimitMessage)>>)
    /\ lpc' = "returned"
    /\ UNCHANGED <<call, ret, RequestVars, pc, LoopVars, model_calls, memory_file, chunks>>

---------------------------------------------------------------------------
(* chat.generate                                                           *)

\* The single-agent stream starts: the loop is entered with the conversation.
ChatStart ==
    /\ pc = "start" /\ mode = "chat"
    /\ pc' = "chat_loop"
    /\ EnterLoop(outgoing)
    /\ UNCHANGED <<call, ret, RequestVars, full_content, sse, model_calls, memory_file, chunks>>

\* The loop has returned: yield "data: [DONE]".
ChatDone ==
    /\ pc = "chat_loop" /\ lpc = "returned"
    /\ sse' = Append(sse, DoneSentinel)
    /\ pc' = "done"
    /\ lpc' = "idle"
    /\ UNCHANGED <<call, ret, RequestVars, full_content, LoopVars, model_calls, memory_file, chunks>>

---------------------------------------------------------------------------
(* chat_team.generate                                                      *)

SystemMessage(persona) == RequestMessage("system", <<"system prompt of ", persona>>)

\* The next member's run starts: member_start, then the loop on
\* [system prompt, *outgoing].
MemberStart ==
    /\ mode = "team"
    /\ \/ pc = "start"
       \/ pc = "member_end" /\ member <= Len(TEAM_MEMBERS)
    /\ sse' = Append(sse, TeamEvent("member_start", TEAM_MEMBERS[member]))
    /\ full_content' = <<>>
    /\ pc' = "member_loop"
    /\ EnterLoop(<<SystemMessage(TEAM_MEMBERS[member])>> \o outgoing)
    /\ UNCHANGED <<call, ret, RequestVars, model_calls, memory_file, chunks>>

\* member_answers[member["id"]] = full_content
StoreAnswer(answers, i, text) ==
    [keys |-> answers.keys \cup {i}, val |-> [answers.val EXCEPT ![i] = text]]

\* The member's loop has returned: its answer is stored, member_end is sent.
MemberEnd ==
    /\ pc = "member_loop" /\ lpc = "returned"
    /\ member_answers' = StoreAnswer(member_answers, member, full_content)
    /\ sse' = Append(sse, TeamEvent("member_end", TEAM_MEMBERS[member]))
    /\ member' = member + 1
    /\ pc' = "member_end"
    /\ lpc' = "idle"
    /\ UNCHANGED <<call, ret, mode, outgoing, full_content, LoopVars, model_calls, memory_file, chunks>>

\* The text the leader reads for a member without an entry in member_answers.
Placeholder == <<"(no answer)">>

\* member_answers.get(m["id"], placeholder)
AnswerOf(answers, i) == IF i \in answers.keys THEN answers.val[i] ELSE Placeholder

\* f"<{id}>\n{answer}\n</{id}>"
MemberSection(answers, i) ==
    <<"<", TEAM_MEMBERS[i], ">", "\n">> \o AnswerOf(answers, i)
    \o <<"\n", "</", TEAM_MEMBERS[i], ">">>

RECURSIVE JoinSections(_, _)
\* "\n\n".join of the sections of members i .. last
JoinSections(answers, i) ==
    IF i > Len(TEAM_MEMBERS) THEN <<>>
    ELSE MemberSection(answers, i)
         \o (IF i < Len(TEAM_MEMBERS) THEN <<"\n\n">> ELSE <<>>)
         \o JoinSections(answers, i + 1)

\* outgoing[-1]["content"] if outgoing else ""
OriginalQuestion(conversation) ==
    IF conversation # <<>> THEN conversation[Len(conversation)].content ELSE <<>>

LeaderUserMsg(conversation, answers) ==
    <<"question: ">> \o OriginalQuestion(conversation)
    \o <<"\n\n", "background: ", "\n">> \o JoinSections(answers, 1)

LeaderCtx(conversation, answers) ==
    << SystemMessage(TEAM_LEADER),
       RequestMessage("user", LeaderUserMsg(conversation, answers)) >>

\* Every member has run: leader_start, then the loop on the synthesis request.
LeaderStart ==
    /\ mode = "team"
    /\ pc = "member_end" /\ member > Len(TEAM_MEMBERS)
    /\ sse' = Append(sse, TeamEvent("leader_start", TEAM_LEADER))
    /\ full_content' = <<>>
    /\ pc' = "leader_loop"
    /\ EnterLoop(LeaderCtx(outgoing, member_answers))
    /\ UNCHANGED <<call, ret, RequestVars, model_calls, memory_file, chunks>>

\* The leader's loop has returned: leader_end.
LeaderEnd ==
    /\ pc = "leader_loop" /\ lpc = "returned"
    /\ sse' = Append(sse, TeamEvent("leader_end", TEAM_LEADER))
    /\ pc' = "leader_end"
    /\ lpc' = "idle"
    /\ UNCHANGED <<call, ret, RequestVars, full_content, LoopVars, model_calls, memory_file, chunks>>

\* yield "data: [DONE]"
TeamDone ==
    /\ pc = "leader_end"
    /\ sse' = Append(sse, DoneSentinel)
    /\ pc' = "done"
    /\ UNCHANGED <<call, ret, RequestVars, full_content, lpc, LoopVars, model_calls, memory_file, chunks>>

---------------------------------------------------------------------------

Terminated == pc = "done" \/ lpc = "raised"

Next ==
    \/ ChatStart \/ ChatDone
    \/ MemberStart \/ MemberEnd \/ LeaderStart \/ LeaderEnd \/ TeamDone
    \/ InvokeModel \/ InvokeModelFails
    \/ StreamChunk \/ StreamFails \/ StreamEnds
    \/ ToolRequest \/ ToolReturns \/ ToolRaises
    \/ LimitReached

Spec == Init /\ [][Next]_vars

---------------------------------------------------------------------------
(* The dispatcher called directly, on every name and argument shape.       *)

ToolNames == {"python_exec", "memory_tool", "bogus", ""}

CodeValues == {Absent, PyStr(<<"x">>), PyStr(<<>>), PyInt(<<"5">>), PyNone}

ContentValues ==
    {Absent, PyStr(<<"m">>), PyStr(<<"m", "n", "o">>), PyStr(<<>>), PyInt(<<"5">>),
     PyNone, PyList(<<"e">>)}

RawArguments ==
    { RawDict([code |-> c, content |-> m]) : c \in CodeValues, m \in ContentValues }
    \cup { RawStr(t) : t \in { <<>>, <<"x">>, <<"{", "}">>, <<"{", "code", ":", "x", "}">>,
                               <<"{", "content", ":", "m", "}">>, <<"5">>, <<"null">>,
                               <<"[", "]">>, <<"\"", "x", "\"">>, <<"{", "code">> } }
    \cup { RawNone, RawInt(<<"5">>), RawList(<<"e">>) }

\* MEMORY_FILE before a call: missing, written by an earlier call, left empty by
\* a failed write, or holding text that is not JSON, an array, an object without
\* "content", or a null content.
Files ==
    { NoFile, save_memories(PyStr(<<"p">>)), TruncatedFile,
      [exists |-> TRUE, text |-> <<"x">>],
      [exists |-> TRUE, text |-> <<"[", "]">>],
      [exists |-> TRUE, text |-> <<"{", "}">>],
      [exists |-> TRUE, text |-> <<"{", "content", ":", "null", "}">>] }

InitDispatch ==
    /\ mode = "chat"
    /\ outgoing = <<>>
    /\ pc = "off"
    /\ member = 1
    /\ member_answers = NoAnswers
    /\ full_content = <<>>
    /\ lpc = "idle"
    /\ ctx = <<>>
    /\ round = 0
    /\ collected_content = <<>>
    /\ collected_thinking = <<>>
    /\ collected_tool_calls = <<>>
    /\ tool_idx = 0
    /\ sse = <<>>
    /\ model_calls = <<>>
    /\ memory_file \in Files
    /\ chunks = 0
    /\ call \in { <<[tool_name |-> n, raw_args |-> a, file |-> memory_file]>> :
                      n \in ToolNames, a \in RawArguments }
    /\ ret = <<>>

\* dispatch_tool(tool_name, raw_args) is called.
Dispatch ==
    /\ pc = "off" /\ call # <<>> /\ ret = <<>>
    /\ \E o \in dispatch_tool(call[1].tool_name, call[1].raw_args, memory_file) :
          /\ ret' = <<o>>
          /\ memory_file' = o.file
    /\ UNCHANGED <<RequestVars, pc, full_content, lpc, LoopVars, sse, model_calls,
                   chunks, call>>

NextDispatch == Dispatch

SpecDispatch == InitDispatch /\ [][NextDispatch]_vars

---------------------------------------------------------------------------
(* The memory store called directly: writes (run_memory_tool) and reads    *)
(* (load_memories) in any order.  Every call runs to its end before the    *)
(* next starts: the server is one process with one event loop (app.py 286) *)
(* and neither function awaits.  `call` holds the last two calls and `ret` *)
(* what they did.                                                          *)

\* No request is being served.
NoRequest ==
    /\ mode = "chat"
    /\ outgoing = <<>>
    /\ member = 1
    /\ member_answers = NoAnswers
    /\ full_content = <<>>
    /\ lpc = "idle"
    /\ ctx = <<>>
    /\ round = 0
    /\ collected_content = <<>>
    /\ collected_thinking = <<>>
    /\ collected_tool_calls = <<>>
    /\ tool_idx = 0
    /\ sse = <<>>
    /\ model_calls = <<>>
    /\ chunks = 0

MemoryAlphabet == {"a", "\""}

\* The str values of length 0 .. MAX_MEMORY_CHARS + 1 over the alphabet.
MemoryStrings ==
    UNION { [1..n -> MemoryAlphabet] : n \in 0..(MAX_MEMORY_CHARS + 1) }

\* The content arguments of a write: strs, among them ones with a backslash or
\* a lone surrogate, and values that are not strs.
MemoryContents ==
    { PyStr(t) : t \in MemoryStrings }
    \cup { PyStr(<<"\\", "\n">>), PyStr(<<Surrogate>>), PyStr(<<"a", "a", Surrogate>>),
           Absent, PyNone, PyInt(<<"5">>), PyList(<<"e">>) }

InitMemory ==
    /\ NoRequest
    /\ pc = "memory"
    /\ memory_file \in Files
    /\ call = <<>>
    /\ ret = <<>>

\* The last two entries of a log to which x is added.
Window(log, x) == IF Len(log) < 2 THEN Append(log, x) ELSE <<log[2], x>>

\* The content of the most recent write that returned ok = true, if any.
LastWritten ==
    IF call = <<>> THEN <<>>
    ELSE IF call[Len(call)].op = "write" /\ ~ret[Len(ret)].raised /\ ret[Len(ret)].value.ok
    THEN <<call[Len(call)].content>>
    ELSE call[Len(call)].written

\* run_memory_tool(content) is called.
MemoryWrite ==
    /\ pc = "memory"
    /\ \E content \in MemoryContents :
          \E o \in run_memory_tool(content, memory_file) :
             /\ call' = Window(call, [op |-> "write", content |-> content,
                                      written |-> LastWritten])
             /\ ret' = Window(ret, [raised |-> o.raised, exc |-> o.exc,
                                    value |-> o.value, text |-> <<>>])
             /\ memory_file' = o.file
    /\ UNCHANGED <<RequestVars, pc, full_content, lpc, LoopVars, sse, model_calls,
                   chunks>>

\* load_memories() is called.
MemoryRead ==
    /\ pc = "memory"
    /\ call' = Window(call, [op |-> "read", content |-> Absent,
                             written |-> LastWritten])
    /\ ret' = Window(ret, [raised |-> FALSE, exc |-> "", value |-> ErrorResult(<<>>),
                           text |-> load_memories(memory_file)])
    /\ UNCHANGED <<RequestVars, pc, full_content, lpc, LoopVars, sse, model_calls,
                   chunks, memory_file>>

NextMemory == MemoryWrite \/ MemoryRead

SpecMemory == InitMemory /\ [][NextMemory]_vars

---------------------------------------------------------------------------
(* _truncate_text called directly, with the default max_chars.             *)

Letters ==
    <<"a", "b", "c", "d", "e", "f", "g", "h", "i", "j", "k", "l", "m",
      "n", "o", "p", "q", "r", "s", "t", "u", "v", "w", "x", "y", "z">>

\* The texts of length 0 .. MaxTextLen that spell the alphabet from some letter
\* on, so that every place of a text is told from its neighbours.
Texts ==
    { [i \in 1..n |-> Letters[((i + k - 1) % Len(Letters)) + 1]] :
          n \in 0..MaxTextLen, k \in 0..3 }

InitTruncate ==
    /\ NoRequest
    /\ pc = "truncate"
    /\ memory_file = NoFile
    /\ call \in { <<[text |-> t]>> : t \in Texts }
    /\ ret = <<>>

\* _truncate_text(text) is called.
Truncate ==
    /\ pc = "truncate" /\ ret = <<>>
    /\ ret' = <<truncate_text(call[1].text, PYTHON_TOOL_MAX_OUTPUT_CHARS)>>
    /\ UNCHANGED <<RequestVars, pc, full_content, lpc, LoopVars, sse, model_calls,
                   chunks, memory_file, call>>

NextTruncate == Truncate

SpecTruncate == InitTruncate /\ [][NextTruncate]_vars

---------------------------------------------------------------------------
(* Two requests served by the one event loop.  The variables hold the      *)
(* request whose coroutine is running; `call` holds the locals of the one  *)
(* that is suspended.  What a request's coroutine owns is swapped when the *)
(* event loop switches; the memory file and the model's budget of deltas   *)
(* belong to the process.  A switch is allowed between any two steps,      *)
(* which is at least where the code awaits or yields.                      *)

\* The locals of the running request: those of the route (chat, chat_team),
\* of its generate() and of the _streaming_loop it drives, with what its
\* consumer has received and the invocations made for it.
Locals ==
    [mode |-> mode, outgoing |-> outgoing, pc |-> pc, member |-> member,
     member_answers |-> member_answers, full_content |-> full_content,
     lpc |-> lpc, ctx |-> ctx, round |-> round,
     collected_content |-> collected_content,
     collected_thinking |-> collected_thinking,
     collected_tool_calls |-> collected_tool_calls, tool_idx |-> tool_idx,
     sse |-> sse, model_calls |-> model_calls]

\* A request as it arrives: nothing has run yet.
Arrived(m, conversation) ==
    [mode |-> m, outgoing |-> conversation, pc |-> "start", member |-> 1,
     member_answers |-> NoAnswers, full_content |-> <<>>,
     lpc |-> "idle", ctx |-> <<>>, round |-> 0,
     collected_content |-> <<>>, collected_thinking |-> <<>>,
     collected_tool_calls |-> <<>>, tool_idx |-> 0,
     sse |-> <<>>, model_calls |-> <<>>]

\* The conversation of the second request.
OtherConversation == << RequestMessage("user", <<"r">>) >>

\* A team request on its own, or two single-agent chat requests.
InitPair ==
    /\ mode \in {"chat", "team"}
    /\ outgoing \in Conversations \ {<<>>}
    /\ pc = "start"
    /\ member = 1
    /\ member_answers = NoAnswers
    /\ full_content = <<>>
    /\ lpc = "idle"
    /\ ctx = <<>>
    /\ round = 0
    /\ collected_content = <<>>
    /\ collected_thinking = <<>>
    /\ collected_tool_calls = <<>>
    /\ tool_idx = 0
    /\ sse = <<>>
    /\ model_calls = <<>>
    /\ memory_file = NoFile
    /\ chunks = 0
    /\ call = IF mode = "chat" THEN <<Arrived("chat", OtherConversation)>> ELSE <<>>
    /\ ret = <<>>

\* The event loop suspends the running request and resumes the other one.
Switch ==
    /\ call # <<>>
    /\ call' = <<Locals>>
    /\ mode' = call[1].mode
    /\ outgoing' = call[1].outgoing
    /\ pc' = call[1].pc
    /\ member' = call[1].member
    /\ member_answers' = call[1].member_answers
    /\ full_content' = call[1].full_content
    /\ lpc' = call[1].lpc
    /\ ctx' = call[1].ctx
    /\ round' = call[1].round
    /\ collected_content' = call[1].collected_content
    /\ collected_thinking' = call[1].collected_thinking
    /\ collected_tool_calls' = call[1].collected_tool_calls
    /\ tool_idx' = call[1].tool_idx
    /\ sse' = call[1].sse
    /\ model_calls' = call[1].model_calls
    /\ UNCHANGED <<memory_file, chunks, ret>>

NextPair == Next \/ Switch

SpecPair == InitPair /\ [][NextPair]_vars

---------------------------------------------------------------------------
(* What the properties read off the stream and the invocation log.         *)

Last(seq) == seq[Len(seq)]

Count(seq, P(_)) == Cardinality({i \in 1..Len(seq) : P(seq[i])})

\* The exceptions of the model capability, and those of a tool.
ModelErrors == {"ConnectionError", "ResponseError"}

IsError(w) == w.kind = "error"
IsDone(w) == w.kind = "[DONE]"
IsContent(w) == w.kind = "choices" /\ w.type = "content"
IsThinking(w) == w.kind = "choices" /\ w.type = "thinking"
IsRequest(w) == w.kind = "tool_event" /\ w.type = "request"
IsResult(w) == w.kind = "tool_event" /\ w.type = "result"
IsLimit(w) == IsContent(w) /\ w.text = LimitMessage
IsFrame(w) == w.kind = "team_event"
IsStart(w) == IsFrame(w) /\ w.type \in {"member_start", "leader_start"}
IsEnd(w) == IsFrame(w) /\ w.type \in {"member_end", "leader_end"}

\* The stream was ended by a failure of the model capability.
ModelFailed == sse # <<>> /\ IsError(Last(sse)) /\ Last(sse).text[1] \in ModelErrors

\* The invocations made for a persona, in order.
CallsOf(persona) == SelectSeq(model_calls, LAMBDA c : c.persona = persona)

\* The invocations of the running loop.
LoopCalls == CallsOf(Persona)

\* The payloads the running loop has put on the stream: those after the frame
\* that opened it (all of them in a single-agent chat), the error payload left out.
LoopFrom ==
    IF \E i \in 1..Len(sse) : IsStart(sse[i])
    THEN CHOOSE i \in 1..Len(sse) : IsStart(sse[i]) /\ \A j \in (i+1)..Len(sse) : ~IsStart(sse[j])
    ELSE 0

LoopEvents == SelectSeq(SubSeq(sse, LoopFrom + 1, Len(sse)), LAMBDA w : ~IsError(w))

RECURSIVE CapturedIn(_)
\* The tool calls a round captures from the deltas of its stream: the last
\* non-empty set.
CapturedIn(deltas) ==
    IF deltas = <<>> THEN <<>>
    ELSE IF Last(deltas).tool_calls # <<>> THEN Last(deltas).tool_calls
    ELSE CapturedIn(SubSeq(deltas, 1, Len(deltas) - 1))

RequestedTools(c) == CapturedIn(c.deltas) # <<>>

---------------------------------------------------------------------------
(* C1 -- round-limit termination.                                          *)

\* C1: when the model has requested a tool call in every round it was invoked
\* for (and has not failed), the loop does not end before MAX_TOOL_ROUNDS
\* invocations: once it has ended it has made exactly MAX_TOOL_ROUNDS
\* invocations, every round's tool requests are paired with results, and the
\* limit-reached content event is its one final event; it never makes more
\* than MAX_TOOL_ROUNDS invocations.
C1_RoundLimitTermination ==
    LoopRunning =>
      /\ Len(LoopCalls) <= MAX_TOOL_ROUNDS
      /\ ( /\ lpc \in {"returned", "raised"}
           /\ ~ModelFailed
           /\ \A k \in 1..Len(LoopCalls) : RequestedTools(LoopCalls[k]) )
         => /\ lpc = "returned"
            /\ Len(LoopCalls) = MAX_TOOL_ROUNDS
            /\ Count(LoopEvents, IsRequest) = Count(LoopEvents, IsResult)
            /\ Count(LoopEvents, IsLimit) = 1
            /\ IsLimit(Last(LoopEvents))

---------------------------------------------------------------------------
(* C2 -- bounded rounds.                                                   *)

\* C2: with a model that does not fail and tools that return, a loop makes at
\* most MAX_TOOL_ROUNDS invocations; it goes on to a further round only after a
\* round that captured tool calls and returns right after the first round that
\* captured none; it emits the limit-reached event if and only if all
\* MAX_TOOL_ROUNDS rounds captured tool calls; and the chat stream then still
\* ends with [DONE] and holds no error payload.
C2_BoundedRounds ==
    /\ LoopRunning => Len(LoopCalls) <= MAX_TOOL_ROUNDS
    /\ (LoopRunning /\ lpc # "raised") =>
          \A k \in 1..(Len(LoopCalls) - 1) : RequestedTools(LoopCalls[k])
    /\ (LoopRunning /\ lpc = "returned") =>
          LET n == Len(LoopCalls)
              all == \A k \in 1..n : RequestedTools(LoopCalls[k])
          IN  /\ n >= 1
              /\ all => n = MAX_TOOL_ROUNDS
              /\ (Count(LoopEvents, IsLimit) > 0) <=> all
              /\ Count(LoopEvents, IsLimit) <= 1
              /\ all => IsLimit(Last(LoopEvents))
              /\ pc = "chat_loop" => ENABLED ChatDone
    /\ (LoopRunning /\ lpc \in {"request", "dispatch", "limit"}) =>
          RequestedTools(Last(LoopCalls))
    /\ (mode = "chat" /\ pc = "done") =>
          /\ IsDone(Last(sse))
          /\ Count(sse, IsError) = 0
          /\ Count(sse, IsDone) = 1

\* A chat stream that used up its rounds and ended with [DONE].
C2_Witness ==
    /\ mode = "chat" /\ pc = "done"
    /\ Len(model_calls) = MAX_TOOL_ROUNDS
    /\ Count(sse, IsLimit) = 1
    /\ IsDone(Last(sse))

---------------------------------------------------------------------------
(* C3 -- normal termination.                                               *)

HasContent(d) == d.content # <<>>

\* The first round of the running loop has been read to its end, carried
\* content and captured no tool calls.
ContentOnlyFirstRound ==
    /\ LoopRunning
    /\ Len(LoopCalls) >= 1
    /\ lpc \notin {"stream", "raised"}
    /\ Count(LoopCalls[1].deltas, HasContent) >= 1
    /\ ~RequestedTools(LoopCalls[1])

\* C3 as stated: after a first round with content and no tool calls the loop
\* has returned with exactly one content event, no tool event, no limit
\* message and one invocation.
C3_ExactlyOneContentEvent ==
    ContentOnlyFirstRound =>
      /\ lpc = "returned"
      /\ Len(LoopCalls) = 1
      /\ Count(LoopEvents, IsContent) = 1
      /\ Count(LoopEvents, IsRequest) = 0
      /\ Count(LoopEvents, IsResult) = 0
      /\ Count(LoopEvents, IsLimit) = 0

\* C3, amended: after a first round with content and no tool calls the loop has
\* returned with one content event for each delta that carried a non-empty
\* content fragment (exactly one when the content came in one delta), no tool
\* event, no limit message and one invocation.
C3_NormalTermination ==
    ContentOnlyFirstRound =>
      /\ lpc = "returned"
      /\ Len(LoopCalls) = 1
      /\ Count(LoopEvents, IsContent) = Count(LoopCalls[1].deltas, HasContent)
      /\ Count(LoopEvents, IsRequest) = 0
      /\ Count(LoopEvents, IsResult) = 0
      /\ Count(LoopEvents, IsLimit) = 0

\* A chat loop that returned after one round whose content came in two deltas.
C3_Witness ==
    /\ pc = "chat_loop" /\ ContentOnlyFirstRound /\ lpc = "returned"
    /\ Count(LoopCalls[1].deltas, HasContent) = 2
    /\ Count(LoopEvents, IsContent) = 2

---------------------------------------------------------------------------
(* C4 -- event ordering.                                                   *)

\* The payloads put on the stream during invocation k: from the invocation up
\* to the next one (or to the end of the stream).
RoundEnd(k) == IF k < Len(model_calls) THEN model_calls[k + 1].at ELSE Len(sse)

RoundEvents(k) == SubSeq(sse, model_calls[k].at + 1, RoundEnd(k))

\* The context handed to an invocation ends with the assistant message of the
\* tool calls `calls` and one tool message for each of them, in order.
EndsWithToolRound(messages, calls) ==
    LET n == Len(calls)
        a == Len(messages) - n
    IN  /\ a >= 1
        /\ messages[a].role = "assistant"
        /\ messages[a].tool_calls = calls
        /\ \A j \in 1..n :
              /\ messages[a + j].role = "tool"
              /\ messages[a + j].name = calls[j].function.name

---------------------------------------------------------------------------
(* C5 -- a failure of the model aborts the stream.                         *)

\* C5: a stream ended by a failure of the model holds exactly one error
\* payload, as its last payload, and no [DONE], and nothing happens after it
\* (no invocation, no tool dispatch, no frame); a stream that ended without
\* such a failure ends with [DONE], its only [DONE].
C5_ModelFailureAborts ==
    /\ ModelFailed =>
          /\ Count(sse, IsError) = 1
          /\ Count(sse, IsDone) = 0
          /\ Last(model_calls).at <= Len(sse) - 1
          /\ ~ENABLED Next
    /\ (Terminated /\ ~ModelFailed) =>
          /\ IsDone(Last(sse))
          /\ Count(sse, IsDone) = 1
          /\ Count(sse, IsError) = 0

---------------------------------------------------------------------------
(* C6 -- a failure of a tool does not abort the loop.                      *)

\* C6: every tool request whose dispatch is over is followed on the stream by
\* the tool's result (ok = false when the tool failed), and no error payload
\* reaches the stream because of a tool: an error payload is a model failure.
C6_ToolFailureNeverAborts ==
    /\ \A i \in 1..(Len(sse) - 1) : IsRequest(sse[i]) => IsResult(sse[i + 1])
    /\ \A i \in 1..Len(sse) : IsError(sse[i]) => sse[i].text[1] \in ModelErrors

---------------------------------------------------------------------------
(* C7 -- dispatch_tool is total.                                           *)

\* C7: a call of dispatch_tool, on any tool name and raw argument value,
\* returns a result and does not raise; for a name other than python_exec and
\* memory_tool the result is {ok: false, error: "unknown tool: <name>"}, no
\* subprocess is started and the memory file is as it was.
C7_DispatchTotal ==
    ret # <<>> =>
      /\ ~ret[1].raised
      /\ ret[1].value.ok \in BOOLEAN
      /\ call[1].tool_name \notin {"python_exec", "memory_tool"} =>
            /\ ret[1].value = ErrorResult(<<"unknown tool: ", call[1].tool_name>>)
            /\ ~ret[1].spawned
            /\ memory_file = call[1].file

---------------------------------------------------------------------------
(* C8 -- team pipeline ordering.                                           *)

RECURSIVE RosterFrames(_)
\* member_start, member_end of the members i .. last, in roster order.
RosterFrames(i) ==
    IF i > Len(TEAM_MEMBERS) THEN <<>>
    ELSE << TeamEvent("member_start", TEAM_MEMBERS[i]),
            TeamEvent("member_end", TEAM_MEMBERS[i]) >> \o RosterFrames(i + 1)

ExpectedFrames ==
    RosterFrames(1)
    \o << TeamEvent("leader_start", TEAM_LEADER), TeamEvent("leader_end", TEAM_LEADER) >>

\* C8: a team stream that ended without a failure of the model is
\* member_start(m1) .. member_end(m1), .., member_start(mN) .. member_end(mN),
\* leader_start .. leader_end, [DONE]: the frames are those of the roster in
\* roster order and then the leader's, no payload lies outside a frame (an end
\* is followed at once by the next start, the last one by [DONE]).
C8_TeamOrdering ==
    (mode = "team" /\ Terminated /\ ~ModelFailed) =>
       /\ SelectSeq(sse, IsFrame) = ExpectedFrames
       /\ IsStart(sse[1])
       /\ \A i \in 1..(Len(sse) - 1) :
             IsEnd(sse[i]) => (IsStart(sse[i + 1]) \/ IsDone(sse[i + 1]))
       /\ IsDone(Last(sse))
       /\ Count(sse, IsDone) = 1

---------------------------------------------------------------------------
(* C9, C10 -- the leader's synthesis request.                              *)

\* The place of a member's frame on the stream.
IsFrameOf(w, type, id) == IsFrame(w) /\ w.type = type /\ w.id = id

FramePos(type, id) == CHOOSE i \in 1..Len(sse) : IsFrameOf(sse[i], type, id)

RECURSIVE TextOf(_, _)
\* The texts of the content payloads at places a .. b of the stream,
\* concatenated.
TextOf(a, b) ==
    IF a > b THEN <<>>
    ELSE (IF IsContent(sse[a]) THEN sse[a].text ELSE <<>>) \o TextOf(a + 1, b)

\* What member i's run put on the stream as content, from its start to its end.
StreamedAnswer(i) ==
    TextOf(FramePos("member_start", TEAM_MEMBERS[i]),
           FramePos("member_end", TEAM_MEMBERS[i]))

RECURSIVE Blocks(_, _)
\* The members' blocks i .. last, each holding answer[i], two newlines between.
Blocks(answer, i) ==
    IF i > Len(TEAM_MEMBERS) THEN <<>>
    ELSE <<"<", TEAM_MEMBERS[i], ">", "\n">> \o answer[i] \o <<"\n", "</", TEAM_MEMBERS[i], ">">>
         \o (IF i < Len(TEAM_MEMBERS) THEN <<"\n\n">> ELSE <<>>)
         \o Blocks(answer, i + 1)

Synthesis(answer) ==
    <<"question: ">>
    \o (IF outgoing = <<>> THEN <<>> ELSE Last(outgoing).content)
    \o <<"\n\n", "background: ", "\n">>
    \o Blocks(answer, 1)

AllMembersEnded(upto) ==
    \A i \in 1..Len(TEAM_MEMBERS) :
       \E j \in 1..upto : IsFrameOf(sse[j], "member_end", TEAM_MEMBERS[i])

\* C9: the leader's first invocation is made with exactly the leader's system
\* prompt and one user message, whose text is the question (the content of the
\* caller's last message) followed by one block per member in roster order,
\* each holding the concatenation of the content payloads of that member's run;
\* it is made after member_end of every member; and every invocation for the
\* leader starts with those two messages.
C9_LeaderInput ==
    \A k \in 1..Len(model_calls) :
       model_calls[k].persona = TEAM_LEADER =>
          LET c == model_calls[k]
              answer == [i \in 1..Len(TEAM_MEMBERS) |-> StreamedAnswer(i)]
              request == << SystemMessage(TEAM_LEADER),
                            RequestMessage("user", Synthesis(answer)) >>
          IN  /\ AllMembersEnded(c.at)
              /\ Len(c.messages) >= 2
              /\ SubSeq(c.messages, 1, 2) = request
              /\ c.round = 1 => c.messages = request

\* The leader is invoked after a member whose content came in two rounds.
C9_Witness ==
    /\ \E k \in 1..Len(model_calls) : model_calls[k].persona = TEAM_LEADER
    /\ \E k \in 2..Len(model_calls) :
          /\ model_calls[k].persona \in {TEAM_MEMBERS[i] : i \in 1..Len(TEAM_MEMBERS)}
          /\ model_calls[k].round = 2
          /\ Count(model_calls[k].deltas, HasContent) = 1
          /\ Count(model_calls[k - 1].deltas, HasContent) = 1

\* C10: in the leader's first invocation the block of every member whose run
\* put no content on the stream holds the placeholder text.
C10_PlaceholderForSilentMember ==
    \A k \in 1..Len(model_calls) :
       (model_calls[k].persona = TEAM_LEADER /\ model_calls[k].round = 1) =>
          LET answer == [i \in 1..Len(TEAM_MEMBERS) |->
                            IF StreamedAnswer(i) = <<>> THEN Placeholder
                            ELSE StreamedAnswer(i)]
          IN  model_calls[k].messages[2].content = Synthesis(answer)

---------------------------------------------------------------------------
(* C11 -- memory round trip.                                               *)

\* The content a write keeps: its first MAX_MEMORY_CHARS characters.
Capped(content) == Prefix(content.s, MAX_MEMORY_CHARS)

\* A write of a str was followed directly by a read.
WriteThenRead ==
    /\ Len(call) = 2
    /\ call[1].op = "write" /\ call[1].content.t = "str"
    /\ call[2].op = "read"

\* C11: a read that directly follows a write of a string returns that string
\* when it is at most MAX_MEMORY_CHARS long, and its first MAX_MEMORY_CHARS
\* characters when it is longer, whatever the file held before the write.
C11_MemoryRoundTrip ==
    WriteThenRead => ret[2].text = Capped(call[1].content)

---------------------------------------------------------------------------
(* C12 -- truncation boundary.                                             *)

\* C12: _truncate_text returns a text of exactly the cap's length as it is; a
\* longer text comes back as its first half-the-cap characters, the truncation
\* marker and its last half-the-cap characters, and what comes back is shorter
\* than the text.
C12_TruncationBoundary ==
    ret # <<>> =>
       LET text == call[1].text
           cap == PYTHON_TOOL_MAX_OUTPUT_CHARS
           half == cap \div 2
           n == Len(text)
       IN  /\ n = cap => ret[1] = text
           /\ n > cap =>
                 /\ ret[1] = SubSeq(text, 1, half) \o TruncationMarker
                                \o SubSeq(text, n - half + 1, n)
                 /\ Len(ret[1]) < n

---------------------------------------------------------------------------
(* C13 -- no empty assistant turn in the context.                          *)

NonEmptyTurn(m) == m.content # <<>> \/ m.thinking # <<>> \/ m.tool_calls # <<>>

RECURSIVE Joined(_, _)
\* The fragments of one kind ("content" or "thinking") of the deltas, joined.
Joined(deltas, kind) ==
    IF deltas = <<>> THEN <<>>
    ELSE (IF kind = "content" THEN Head(deltas).content ELSE Head(deltas).thinking)
         \o Joined(Tail(deltas), kind)

\* The deltas of a round yield no content, no thinking (once trimmed) and no
\* tool calls.
YieldsNothing(deltas) ==
    /\ strip(Joined(deltas, "content")) = <<>>
    /\ strip(Joined(deltas, "thinking")) = <<>>
    /\ CapturedIn(deltas) = <<>>

\* The last round of the running loop has been read to its end.
RoundRead == LoopRunning /\ LoopCalls # <<>> /\ lpc \notin {"invoke", "stream", "raised"}

\* C13: while a loop runs, every assistant message of its context has content,
\* thinking or tool calls; and a round whose deltas yield none of the three
\* leaves the context as it was when the round's invocation was made.
C13_NoEmptyAssistantTurn ==
    LoopRunning =>
       /\ \A i \in 1..Len(ctx) : ctx[i].role = "assistant" => NonEmptyTurn(ctx[i])
       /\ (RoundRead /\ YieldsNothing(Last(LoopCalls).deltas)) =>
              ctx = Last(LoopCalls).messages

---------------------------------------------------------------------------
(* C14 -- tool registry selection.                                         *)

\* C14: every invocation made for a single-agent chat request is given the
\* full registry (python_exec and memory_tool), and every invocation made for
\* a team member or the leader is given the registry of python_exec alone.
C14_ToolRegistrySelection ==
    \A k \in 1..Len(model_calls) :
       /\ model_calls[k].persona = "chat" => model_calls[k].tools = TOOLS
       /\ model_calls[k].persona # "chat" =>
             model_calls[k].tools = <<"python_exec">>

---------------------------------------------------------------------------
(* C15 -- context growth.                                                  *)

IsPrefix(p, q) == Len(p) <= Len(q) /\ SubSeq(q, 1, Len(p)) = p

\* The results emitted in the tool_result events of invocation k, in order.
ResultsOf(k) == SelectSeq(RoundEvents(k), IsResult)

\* `after` is `before` extended by one assistant message carrying `calls` and
\* one tool message for each call, in order, with the call's tool name, the
\* JSON encoding of the result emitted for it and the call's id, if it has one.
ExtendedByToolRound(before, after, calls, results) ==
    LET n == Len(calls)
        a == Len(before) + 1
    IN  /\ Len(results) = n
        /\ Len(after) = a + n
        /\ SubSeq(after, 1, a - 1) = before
        /\ after[a].role = "assistant"
        /\ after[a].tool_calls = calls
        /\ \A j \in 1..n :
              /\ after[a + j].role = "tool"
              /\ after[a + j].name = calls[j].function.name
              /\ after[a + j].content = json_dumps(results[j].result)
              /\ ("tool_call_id" \in after[a + j].keys) <=> (calls[j].id # "")
              /\ calls[j].id # "" => after[a + j].tool_call_id = calls[j].id

\* A round of tool calls is over at every later invocation of the same loop,
\* and in the running loop once it is past its last tool call.
ToolRoundsExtend ==
    /\ \A k \in 2..Len(model_calls) :
          model_calls[k].round > 1 =>
             ExtendedByToolRound(model_calls[k - 1].messages, model_calls[k].messages,
                                 CapturedIn(model_calls[k - 1].deltas), ResultsOf(k - 1))
    /\ (LoopRunning /\ lpc \in {"limit", "returned"} /\ LoopCalls # <<>>
          /\ RequestedTools(Last(LoopCalls))) =>
             ExtendedByToolRound(Last(model_calls).messages, ctx,
                                 CapturedIn(Last(model_calls).deltas),
                                 ResultsOf(Len(model_calls)))

\* A step of a running loop leaves the entries of its context as they are and
\* adds at most one.
AppendOnlyStep ==
    (LoopRunning /\ pc' = pc) => (IsPrefix(ctx, ctx') /\ Len(ctx') <= Len(ctx) + 1)

---------------------------------------------------------------------------
(* C16 -- at most one tool-call set per round.                             *)

\* The tool requests emitted during invocation k, in order.
RequestsOf(k) == SelectSeq(RoundEvents(k), IsRequest)

\* The deltas of invocation k that carry tool calls.
ToolDeltas(k) == SelectSeq(model_calls[k].deltas, LAMBDA d : d.tool_calls # <<>>)

\* The tool calls recorded in a context: those of its assistant messages.
RecordedIn(messages) ==
    { messages[i].tool_calls :
         i \in { j \in 1..Len(messages) : messages[j].role = "assistant"
                                           /\ messages[j].tool_calls # <<>> } }

\* C16: of the tool-call sets the deltas of a round carry, only the last is
\* dispatched and recorded: the round's tool requests are those of the last
\* set, in order, each followed by its result before the next; the memory file
\* is written only by a requested memory_tool call; the tool calls recorded in
\* a context are the last sets of the rounds; and while the stream of a round
\* is being read the round has no tool request and no tool result.
C16_OneToolCallSetPerRound ==
    /\ \A k \in 1..Len(model_calls) :
          LET last == IF ToolDeltas(k) = <<>> THEN <<>>
                      ELSE ToolDeltas(k)[Len(ToolDeltas(k))].tool_calls
              req == RequestsOf(k)
          IN  /\ Len(req) <= Len(last)
              /\ Len(ResultsOf(k)) <= Len(req)
              /\ \A j \in 1..Len(req) :
                    /\ req[j].tool = last[j].function.name
                    /\ req[j].arguments = ArgsOrEmpty(last[j].function.arguments)
              /\ RecordedIn(model_calls[k].messages)
                    \subseteq { ToolDeltas(i)[Len(ToolDeltas(i))].tool_calls :
                                    i \in { h \in 1..(k - 1) : ToolDeltas(h) # <<>> } }
    /\ LoopRunning =>
          RecordedIn(ctx)
             \subseteq { ToolDeltas(i)[Len(ToolDeltas(i))].tool_calls :
                             i \in { h \in 1..Len(model_calls) : ToolDeltas(h) # <<>> } }
    /\ memory_file # NoFile =>
          \E i \in 1..Len(sse) : IsRequest(sse[i]) /\ sse[i].tool = "memory_tool"
    /\ (LoopRunning /\ lpc = "stream") =>
          (RequestsOf(Len(model_calls)) = <<>> /\ ResultsOf(Len(model_calls)) = <<>>)

\* A round whose two deltas carried different tool-call sets, the first one a
\* memory write, and whose requests have all been answered.
C16_Witness ==
    \E k \in 1..Len(model_calls) :
       /\ Len(ToolDeltas(k)) = 2
       /\ ToolDeltas(k)[1].tool_calls # ToolDeltas(k)[2].tool_calls
       /\ ToolDeltas(k)[1].tool_calls[1].function.name = "memory_tool"
       /\ Len(ResultsOf(k)) = Len(ToolDeltas(k)[2].tool_calls)

---------------------------------------------------------------------------
(* C17 -- the restricted toolset and the memory file.                      *)

\* A step taken while the loop of a team member or of the leader runs leaves
\* the memory file as it was.
TeamStepKeepsMemory ==
    pc \in {"member_loop", "leader_loop"} => memory_file' = memory_file

\* C17: no step of the loop of a team member or of the leader changes the
\* memory file, whatever tool calls the model emits.
C17_RestrictedToolsetKeepsMemory == [][TeamStepKeepsMemory]_vars

---------------------------------------------------------------------------
(* C18 -- context isolation.                                               *)

\* The messages of a context that the caller of a request wrote.
UserMessages(messages) ==
    { messages[i] : i \in { j \in 1..Len(messages) : messages[j].role = "user" } }

\* The context a member's loop starts from.
MemberStartContext(id) == <<SystemMessage(id)>> \o outgoing

\* C18: the caller's conversation is as it was when the loop was invoked (the
\* first invocation of a chat was made with the conversation as it still is);
\* every member's first invocation is made with exactly the member's system
\* prompt followed by the caller's messages; and with two requests in
\* progress the context of each holds its own conversation and the messages of
\* its own rounds only: every later invocation is made with the messages of
\* the request's previous one extended by that round's assistant and tool
\* messages, the live context extends the last invocation's messages by at
\* most the messages of the round in progress, and no user message of one
\* request is in the context of the other.
C18_ContextIsolation ==
    /\ \A k \in 1..Len(model_calls) :
          LET c == model_calls[k]
          IN  /\ (c.persona = "chat" /\ c.round = 1) => c.messages = outgoing
              /\ (c.persona \notin {"chat", TEAM_LEADER} /\ c.round = 1) =>
                     c.messages = MemberStartContext(c.persona)
              /\ c.persona # TEAM_LEADER => UserMessages(c.messages) \subseteq UserMessages(outgoing)
    /\ ToolRoundsExtend
    /\ (LoopRunning /\ LoopCalls # <<>>) =>
          /\ IsPrefix(Last(LoopCalls).messages, ctx)
          /\ Len(ctx) <= Len(Last(LoopCalls).messages) + 1 + Len(ResultsOf(Len(model_calls)))
    /\ (LoopRunning /\ pc # "leader_loop") => UserMessages(ctx) \subseteq UserMessages(outgoing)
    /\ call # <<>> =>
          /\ UserMessages(call[1].ctx) \subseteq UserMessages(call[1].outgoing)
          /\ UserMessages(call[1].outgoing) \cap UserMessages(outgoing) = {}
          /\ call[1].outgoing \in {OtherConversation} \cup Conversations

\* Two requests in progress, each with a loop whose context has grown by a
\* message of its own.
C18_Witness ==
    /\ call # <<>>
    /\ LoopRunning /\ Len(ctx) > Len(outgoing)
    /\ call[1].pc = "chat_loop" /\ call[1].lpc # "raised"
    /\ Len(call[1].ctx) > Len(call[1].outgoing)
    /\ lpc # "raised"

---------------------------------------------------------------------------
(* C19 -- last write wins.                                                 *)

\* The latest operation on the memory store and what it gave.
LastOp == call[Len(call)]
LastRet == ret[Len(ret)]

\* The step is a write that was rejected: it returned a result with ok = false.
RejectedWrite ==
    /\ call' # call
    /\ call'[Len(call')].op = "write"
    /\ ~ret'[Len(ret')].raised
    /\ ~ret'[Len(ret')].value.ok

RejectedWriteKeepsBlob == RejectedWrite => memory_file' = memory_file

\* A read gives the capped content of the most recent write of a str that
\* returned ok = true, and two reads in a row give the same.
ReadGivesLastWrite ==
    /\ (call # <<>> /\ LastOp.op = "read" /\ LastWritten # <<>> /\ LastWritten[1].t = "str") =>
          LastRet.text = Capped(LastWritten[1])
    /\ (Len(call) = 2 /\ call[1].op = "read" /\ call[2].op = "read") =>
          ret[1].text = ret[2].text

\* C19: after any sequence of memory_tool writes a read returns the capped
\* content of the most recent successful write and nothing else, two reads with
\* no write between them return the same, and a write that is rejected with
\* ok = false leaves the stored file as it was.
C19_LastWriteWins ==
    []ReadGivesLastWrite /\ [][RejectedWriteKeepsBlob]_vars

---------------------------------------------------------------------------
(* _normalize_tool_arguments called directly, on every argument shape.     *)

\* The raw values: those of RawArguments, and the JSON booleans as text, a
\* quoted string, texts cut short, and a bool, a zero and an empty list.
NormalizeInputs ==
    RawArguments
    \cup { RawStr(t) : t \in { <<"true">>, <<"false">>, <<"\"", "m", "\"">>,
                               <<"{", "content">>, <<"{">> } }
    \cup { RawBool("True"), RawBool("False"), RawInt(<<"0">>), RawList(<<>>) }

InitNormalize ==
    /\ NoRequest
    /\ pc = "normalize"
    /\ memory_file = NoFile
    /\ call \in { <<[raw_args |-> a]>> : a \in NormalizeInputs }
    /\ ret = <<>>

\* _normalize_tool_arguments(raw_args) is called.
Normalize ==
    /\ pc = "normalize" /\ ret = <<>>
    /\ ret' = <<normalize_tool_arguments(call[1].raw_args)>>
    /\ UNCHANGED <<RequestVars, pc, full_content, lpc, LoopVars, sse, model_calls,
                   chunks, memory_file, call>>

NextNormalize == Normalize

SpecNormalize == InitNormalize /\ [][NextNormalize]_vars

---------------------------------------------------------------------------
(* C20 -- argument normalization.                                          *)

\* The mapping with the one key code bound to the raw str.
CodeOnly(raw) == [EmptyDict EXCEPT !.code = PyStr(raw.s)]

\* The raw strs that spell a JSON object, and the mapping each one spells.
SpelledMappings ==
    { <<RawStr(<<"{", "}">>), EmptyDict>>,
      <<RawStr(<<"{", "code", ":", "x", "}">>), [EmptyDict EXCEPT !.code = PyStr(<<"x">>)]>>,
      <<RawStr(<<"{", "content", ":", "m", "}">>), [EmptyDict EXCEPT !.content = PyStr(<<"m">>)]>> }

\* C20: _normalize_tool_arguments returns a mapping as it is; for a str that
\* JSON-decodes to a mapping it returns that mapping; for a str that does not
\* decode, or decodes to a number, a list, a string, null or a boolean, it
\* returns {code: the raw str}; for any other value it returns the empty
\* mapping.
C20_ArgumentNormalization ==
    (pc = "normalize" /\ ret # <<>>) =>
       LET raw == call[1].raw_args
           out == ret[1]
       IN  /\ raw.t = "dict" => out = raw.d
           /\ \A p \in SpelledMappings : raw = p[1] => out = p[2]
           /\ (raw.t = "str" /\ raw \notin { p[1] : p \in SpelledMappings }) =>
                  out = CodeOnly(raw)
           /\ raw.t \notin {"dict", "str"} => out = EmptyDict

\* A str that decodes to a value that is not a mapping was normalized.
C20_Witness ==
    /\ pc = "normalize" /\ ret # <<>>
    /\ call[1].raw_args = RawStr(<<"true">>)
    /\ ret[1].code = PyStr(<<"true">>)

====
